---- MODULE Spec2Model ----
(***************************************************************************)
(* Model of the two programs of the repository:                            *)
(*   src/src/interactive-multipole.py  the multipole potential evaluator   *)
(*                                     and its slider-driven display       *)
(*   src/report/assemble.py            the four-step report assembler      *)
(***************************************************************************)
EXTENDS Integers, Sequences, FiniteSets, TLC

(***************************************************************************)
(* Binary floating point.  The Python floats of the evaluator are IEEE     *)
(* binary floats; they are modelled with the same arithmetic (round to     *)
(* nearest, ties to even, after every operation; NaN is absorbing) at a    *)
(* significand of Prec bits instead of 53 and with an unbounded exponent.  *)
(* A number is m * 2^e with m odd (or m = 0, e = 0), so equal numbers are  *)
(* equal records.                                                          *)
(***************************************************************************)
Prec == 11

TwoP == 2 ^ Prec

NaN == [m |-> 0, e |-> 0, nan |-> TRUE]

Zero == [m |-> 0, e |-> 0, nan |-> FALSE]

AbsInt(n) == IF n < 0 THEN -n ELSE n

SignInt(n) == IF n < 0 THEN -1 ELSE IF n > 0 THEN 1 ELSE 0

\* the unique record of the number a * 2^e: trailing zero bits of a move into e
RECURSIVE Canon(_, _)
Canon(a, e) ==
    IF a = 0 THEN Zero
    ELSE IF a % 2 = 0 THEN Canon(a \div 2, e + 1)
    ELSE [m |-> a, e |-> e, nan |-> FALSE]

\* drop low bits of the magnitude a until it fits Prec bits; g is the last bit
\* dropped, s whether any bit dropped before it (or by the caller) was set
RECURSIVE RShift(_, _, _, _)
RShift(a, e, g, s) ==
    IF a < TwoP THEN <<a, e, g, s>>
    ELSE RShift(a \div 2, e + 1, a % 2, s \/ g = 1)

\* round sgn * (a + fraction) * 2^e to Prec bits, nearest, ties to even;
\* sticky says the exact magnitude lies strictly above a
Round(sgn, a, e, sticky) ==
    LET t == RShift(a, e, 0, sticky)
        up == t[3] = 1 /\ (t[4] \/ t[1] % 2 = 1)
    IN  Canon(sgn * (IF up THEN t[1] + 1 ELSE t[1]), t[2])

FromInt(n) == Round(SignInt(n), AbsInt(n), 0, FALSE)

\* the full-width form <<M, E>> of a nonzero number: 2^(Prec-1) <= |M| < 2^Prec
RECURSIVE Widen(_, _)
Widen(m, e) ==
    IF AbsInt(m) * 2 >= TwoP THEN <<m, e>> ELSE Widen(m * 2, e - 1)

FNeg(x) == IF x.nan THEN NaN ELSE [x EXCEPT !.m = -x.m]

FAbs(x) == IF x.nan THEN NaN ELSE [x EXCEPT !.m = AbsInt(x.m)]

\* x + y
FAdd(x, y) ==
    IF x.nan \/ y.nan THEN NaN
    ELSE IF x.m = 0 THEN y
    ELSE IF y.m = 0 THEN x
    ELSE LET wx == Widen(x.m, x.e)
             wy == Widen(y.m, y.e)
             hi == IF wx[2] >= wy[2] THEN wx ELSE wy
             lo == IF wx[2] >= wy[2] THEN wy ELSE wx
             d  == hi[2] - lo[2]
         IN  IF d >= Prec + 2
             THEN Canon(hi[1], hi[2])
             ELSE LET sum == hi[1] * (2 ^ d) + lo[1]
                  IN  Round(SignInt(sum), AbsInt(sum), lo[2], FALSE)

FSub(x, y) == FAdd(x, FNeg(y))

\* x * y
FMul(x, y) ==
    IF x.nan \/ y.nan THEN NaN
    ELSE LET p == x.m * y.m
         IN  Round(SignInt(p), AbsInt(p), x.e + y.e, FALSE)

\* binary long division of r / den (r < den) continued until the quotient q
\* has Prec + 2 bits
RECURSIVE LongDiv(_, _, _, _)
LongDiv(q, r, den, e) ==
    IF q >= 2 * TwoP THEN <<q, r, e>>
    ELSE IF 2 * r >= den THEN LongDiv(2 * q + 1, 2 * r - den, den, e - 1)
    ELSE LongDiv(2 * q, 2 * r, den, e - 1)

\* the float nearest to num / den (den > 0), times 2^e
RatToFloat(num, den, e) ==
    IF num = 0 THEN Zero
    ELSE LET a == AbsInt(num)
             t == LongDiv(a \div den, a % den, den, e)
         IN  Round(SignInt(num), t[1], t[3], t[2] # 0)

\* x / y; the divisor is nonzero wherever the evaluator divides (mask)
FDiv(x, y) ==
    IF x.nan \/ y.nan \/ y.m = 0 THEN NaN
    ELSE RatToFloat(x.m * SignInt(y.m), AbsInt(y.m), x.e - y.e)

\* largest r with r * r <= n, bit by bit from b down
RECURSIVE ISqrt(_, _, _)
ISqrt(n, r, b) ==
    IF b = 0 THEN r
    ELSE IF (r + b) * (r + b) <= n THEN ISqrt(n, r + b, b \div 2)
    ELSE ISqrt(n, r, b \div 2)

\* sqrt(x), x >= 0
FSqrt(x) ==
    IF x.nan \/ x.m < 0 THEN NaN
    ELSE IF x.m = 0 THEN Zero
    ELSE LET w == Widen(x.m, x.e)
             k == IF (w[2] - (Prec + 2)) % 2 = 0 THEN Prec + 2 ELSE Prec + 3
             a == w[1] * (2 ^ k)
             r == ISqrt(a, 0, 2 ^ (Prec + 1))
         IN  Round(1, r, (w[2] - k) \div 2, r * r # a)

\* x < y, x <= y, x = y as Python compares floats (every comparison with NaN is False)
FLess(x, y) == ~x.nan /\ ~y.nan /\ FSub(x, y).m < 0

FLeq(x, y) == ~x.nan /\ ~y.nan /\ FSub(x, y).m <= 0

FEq(x, y) == ~x.nan /\ ~y.nan /\ x = y

FMax(x, y) == IF FLess(x, y) THEN y ELSE x

IsFinite(x) == ~x.nan

One == FromInt(1)

(***************************************************************************)
(* interactive-multipole.py: constants                                     *)
(***************************************************************************)
Keys == {"monopole", "dipole", "quadrupole", "octupole"}

DEFAULT_WEIGHTS ==
    [k \in Keys |->
        CASE k = "monopole"   -> FromInt(1)
          [] k = "dipole"     -> RatToFloat(6, 10, 0)
          [] k = "quadrupole" -> RatToFloat(4, 10, 0)
          [] k = "octupole"   -> RatToFloat(3, 10, 0)]

GRID_POINTS == 260

R_MAX == 3

R_MIN == RatToFloat(1, 10, 0)

SLIDER_MIN == -2

SLIDER_MAX == 2

REFERENCE_COEFF == RatToFloat(3, 10000, 0)

\* the 1e-6 floor of the color scale
VmaxFloor == RatToFloat(1, 1000000, 0)

(***************************************************************************)
(* The grid.  The model evaluates the fields on a sample of the            *)
(* GRID_POINTS x GRID_POINTS grid: SampleHalf indices on each side of the  *)
(* centre, Stride apart, so that the sample holds points inside and        *)
(* outside the R_MIN disc.                                                 *)
(***************************************************************************)
SampleHalf == 2

Stride == 4

Idx ==
    {GRID_POINTS \div 2 - 1 - Stride * k : k \in 0 .. SampleHalf - 1}
        \cup {GRID_POINTS \div 2 + Stride * k : k \in 0 .. SampleHalf - 1}

Points == Idx \X Idx

\* np.linspace(start, stop, num)[i]: arange(num) * step + start, last element stop
linspace(start, stop, num, i) ==
    LET step == FDiv(FSub(stop, start), FromInt(num - 1))
    IN  IF i = num - 1 THEN stop ELSE FAdd(FMul(FromInt(i), step), start)

build_grid ==
    LET x == [i \in Idx |-> linspace(FromInt(-R_MAX), FromInt(R_MAX), GRID_POINTS, i)]
        y == [i \in Idx |-> linspace(FromInt(-R_MAX), FromInt(R_MAX), GRID_POINTS, i)]
        X == [p \in Points |-> x[p[2]]]
        Y == [p \in Points |-> y[p[1]]]
        R == [p \in Points |-> FSqrt(FAdd(FMul(X[p], X[p]), FMul(Y[p], Y[p])))]
    IN  [X |-> X, Y |-> Y, R |-> R, mask |-> [p \in Points |-> FLess(R[p], R_MIN)]]

zeros_like == [p \in Points |-> Zero]


(***************************************************************************)
(* Potential-field evaluator                                               *)
(***************************************************************************)
\* legendre_poly on an array; raised for an order outside 0..3
legendre_poly(l_value, cos_theta) ==
    IF l_value = 0 THEN [raised |-> FALSE, P |-> [p \in Points |-> One]]
    ELSE IF l_value = 1 THEN [raised |-> FALSE, P |-> cos_theta]
    ELSE IF l_value = 2
    THEN [raised |-> FALSE,
          P |-> [p \in Points |->
                   FMul(RatToFloat(1, 2, 0),
                        FSub(FMul(FromInt(3), FMul(cos_theta[p], cos_theta[p])), One))]]
    ELSE IF l_value = 3
    THEN [raised |-> FALSE,
          P |-> [p \in Points |->
                   FMul(RatToFloat(1, 2, 0),
                        FSub(FMul(FromInt(5),
                                  FMul(FMul(cos_theta[p], cos_theta[p]), cos_theta[p])),
                             FMul(FromInt(3), cos_theta[p])))]]
    ELSE [raised |-> TRUE, P |-> <<>>]

\* np.power(r, -n): 1 / r^n, by n divisions of 1, each rounded
RECURSIVE FPowInv(_, _)
FPowInv(r, n) ==
    IF n = 0 THEN One ELSE FDiv(FPowInv(r, n - 1), r)

\* faulty variant: multipole_term without the zero-coefficient return of lines 49-50
multipole_term_NoShortCircuit(l_value, coefficient, X, Y, R, mask) ==
    LET cos_theta == [p \in Points |-> IF mask[p] THEN Zero ELSE FDiv(Y[p], R[p])]
        P_l == legendre_poly(l_value, cos_theta)
        radial == [p \in Points |->
                     IF mask[p] THEN Zero ELSE FPowInv(R[p], l_value + 1)]
    IN  IF P_l.raised
        THEN [raised |-> TRUE, V |-> <<>>]
        ELSE [raised |-> FALSE,
              V |-> [p \in Points |->
                       IF mask[p] THEN NaN
                       ELSE FMul(FMul(coefficient, P_l.P[p]), radial[p])]]

\* multipole_term: [raised |-> a ValueError left the call, V |-> the field returned]
multipole_term(l_value, coefficient, X, Y, R, mask) ==
    IF FEq(coefficient, Zero) THEN [raised |-> FALSE, V |-> zeros_like]
    ELSE LET cos_theta == [p \in Points |-> IF mask[p] THEN Zero ELSE FDiv(Y[p], R[p])]
             P_l == legendre_poly(l_value, cos_theta)
             radial == [p \in Points |->
                          IF mask[p] THEN Zero ELSE FPowInv(R[p], l_value + 1)]
         IN  IF P_l.raised
             THEN [raised |-> TRUE, V |-> <<>>]
             ELSE [raised |-> FALSE,
                   V |-> [p \in Points |->
                            IF mask[p] THEN NaN
                            ELSE FMul(FMul(coefficient, P_l.P[p]), radial[p])]]

\* compute_potentials: label, order and weight key of each term, in the order summed
term_info ==
    << <<"Monopole", 0, "monopole">>, <<"Dipole", 1, "dipole">>,
       <<"Quadrupole", 2, "quadrupole">>, <<"Octupole", 3, "octupole">> >>

Labels == {term_info[n][1] : n \in 1 .. Len(term_info)}

\* faulty variant: total = V instead of total += V
AddField_Overwrite(total, V) == [p \in Points |-> V[p]]

\* total += V
AddField(total, V) == [p \in Points |-> FAdd(total[p], V[p])]

\* the elements np.isfinite keeps
Finite(V) == {p \in Points : IsFinite(V[p])}

\* np.nanmax(np.abs(valid)) over the finite elements S of a field, S nonempty
MaxAbs(V, S) ==
    CHOOSE v \in {FAbs(V[p]) : p \in S} : \A q \in S : FLeq(FAbs(V[q]), v)

\* compute_reference_vmax, lines 194-196 and 198-200: the candidate after a field
next_candidate(candidate_max, V) ==
    IF Finite(V) # {} THEN FMax(candidate_max, MaxAbs(V, Finite(V))) ELSE candidate_max

(***************************************************************************)
(* Interactive display controller                                          *)
(***************************************************************************)
Axes == {"ax_main", "ax_mono", "ax_dip", "ax_quad", "ax_oct"}

\* an axis on which nothing has been drawn yet
Blank == [V |-> <<>>, vmin |-> Zero, vmax |-> Zero, levels |-> <<>>, title |-> <<>>]

\* f"{w:.2f}": the sign and the hundredths nearest to w (ties to even)
Format2(w) ==
    IF w.e >= 0 THEN [neg |-> w.m < 0, hundredths |-> AbsInt(w.m) * (2 ^ w.e) * 100]
    ELSE IF -w.e > 30 THEN [neg |-> w.m < 0, hundredths |-> 0]
    ELSE LET num == AbsInt(w.m) * 100
             den == 2 ^ (-w.e)
             q == num \div den
             r == num % den
         IN  [neg |-> w.m < 0,
              hundredths |-> IF 2 * r > den \/ (2 * r = den /\ q % 2 = 1)
                             THEN q + 1 ELSE q]

\* Python's None, and a name not assigned yet
None == [m |-> 0, e |-> 0, nan |-> FALSE, none |-> TRUE]

\* faulty variant: plot_panel scaling each panel by its own data (vmax_override ignored)
plot_panel_OwnScale(V, title, vmax_override) ==
    LET finite_vals == Finite(V)
        vmax == IF finite_vals = {} THEN One
                ELSE IF FLeq(MaxAbs(V, finite_vals), VmaxFloor) THEN One
                ELSE MaxAbs(V, finite_vals)
        levels == [i \in 1 .. 11 |-> linspace(FNeg(vmax), vmax, 11, i - 1)]
        nonzero(x) == ~FEq(x, Zero)
    IN  [V |-> V, vmin |-> FNeg(vmax), vmax |-> vmax,
         levels |-> IF finite_vals # {} THEN SelectSeq(levels, nonzero) ELSE <<>>,
         title |-> title]

\* plot_panel: what the axis shows after ax.cla() and the drawing calls (the
\* mesh with its color limits, the contour levels, the title; the disc at the
\* origin and the axis styling are the same in every call)
plot_panel(V, title, vmax_override) ==
    LET finite_vals == Finite(V)
        vmax == IF vmax_override # None THEN vmax_override
                ELSE IF finite_vals = {} THEN One
                ELSE IF FLeq(MaxAbs(V, finite_vals), VmaxFloor) THEN One
                ELSE MaxAbs(V, finite_vals)
        levels == [i \in 1 .. 11 |-> linspace(FNeg(vmax), vmax, 11, i - 1)]
        nonzero(x) == ~FEq(x, Zero)
    IN  [V |-> V, vmin |-> FNeg(vmax), vmax |-> vmax,
         levels |-> IF finite_vals # {} THEN SelectSeq(levels, nonzero) ELSE <<>>,
         title |-> title]

\* create_sliders: one slider per key, at the weight's value
create_sliders(w) ==
    [k \in Keys |->
        [val |-> w[k], valmin |-> FromInt(SLIDER_MIN), valmax |-> FromInt(SLIDER_MAX)]]

\* the value a Slider takes for a pointer position: kept within [valmin, valmax]
value_in_bounds(slider, raw) ==
    IF FLeq(raw, slider.valmin) THEN slider.valmin
    ELSE IF FLeq(slider.valmax, raw) THEN slider.valmax
    ELSE raw

\* faulty variant: a callback that leaves the weights as they were
on_slider_change_Stale(w, sl) == w

\* on_slider_change, the loop over the keys: the weights it leaves
on_slider_change(w, sl) == [key \in DOMAIN w |-> sl[key].val]

\* update_plots, lines 234-238: the field, the title and the scale given to
\* plot_panel for each axis
panel_args(a, pots, tot, w, vmax) ==
    CASE a = "ax_main" -> <<tot, <<"Total Potential">>, vmax>>
      [] a = "ax_mono" ->
           <<pots["Monopole"], <<"Monopole", Format2(w["monopole"])>>, vmax>>
      [] a = "ax_dip" ->
           <<pots["Dipole"], <<"Dipole", Format2(w["dipole"])>>, vmax>>
      [] a = "ax_quad" ->
           <<pots["Quadrupole"], <<"Quadrupole", Format2(w["quadrupole"])>>, vmax>>
      [] a = "ax_oct" ->
           <<pots["Octupole"], <<"Octupole", Format2(w["octupole"])>>, vmax>>

\* the axes update_plots calls plot_panel on
drawn_axes == Axes

(***************************************************************************)
(* assemble.py                                                             *)
(***************************************************************************)
image_png == "media/multipole_plot.png"

image_pdf == "build/image.pdf"

report_tex == "report.tex"

report_pdf == "build/report.pdf"

code_tex == "code.tex"

code_pdf == "build/code.pdf"

final_pdf == "build/final_report.pdf"

Paths == {image_png, image_pdf, report_pdf, code_pdf, final_pdf}

\* a path that names no file
Absent == <<"absent">>

exists(files, path) == files[path] # Absent

\* faulty variant: a merge that stops at the first missing input
RECURSIVE MergeLoop_StopAtMissing(_, _, _, _)
MergeLoop_StopAtMissing(files, pdf_files, n, acc) ==
    IF n > Len(pdf_files) THEN acc
    ELSE IF exists(files, pdf_files[n])
    THEN MergeLoop_StopAtMissing(files, pdf_files, n + 1,
                                 [acc EXCEPT !.pages = @ \o Tail(files[pdf_files[n]])])
    ELSE [acc EXCEPT !.warnings = Append(@, pdf_files[n])]

\* the loop of assemble_pdf over pdf_files[n .. ]: the pages appended to the
\* merger and the warnings printed
RECURSIVE MergeLoop(_, _, _, _)
MergeLoop(files, pdf_files, n, acc) ==
    IF n > Len(pdf_files) THEN acc
    ELSE IF exists(files, pdf_files[n])
    THEN MergeLoop(files, pdf_files, n + 1,
                   [acc EXCEPT !.pages = @ \o Tail(files[pdf_files[n]])])
    ELSE MergeLoop(files, pdf_files, n + 1,
                   [acc EXCEPT !.warnings = Append(@, pdf_files[n])])

\* assemble_pdf: the files after merger.write, and the warnings printed
assemble_pdf(files, image, report, code, output) ==
    LET m == MergeLoop(files, <<image, report, code>>, 1,
                       [pages |-> <<>>, warnings |-> <<>>])
    IN  [files |-> [files EXCEPT ![output] = <<"pdf">> \o m.pages],
         warnings |-> m.warnings]

\* longest PDF, in pages, that the merge is tried on
MaxPages == 2

RECURSIVE PageSeq(_, _)
PageSeq(name, n) == IF n = 0 THEN <<>> ELSE Append(PageSeq(name, n - 1), <<name, n>>)

\* a PDF file of n pages
Pdf(name, n) == <<"pdf">> \o PageSeq(name, n)

\* faulty variant: compile_latex that does not look at the return code
compile_latex_IgnoreRc(files, pdf, name, returncode, wrote) ==
    [ok |-> TRUE,
     files |-> IF wrote THEN [files EXCEPT ![pdf] = Pdf(name, 1)] ELSE files]

\* compile_latex under an outcome of pdflatex (its return code, and whether it
\* wrote the PDF): the value returned and the files left
compile_latex(files, pdf, name, returncode, wrote) ==
    [ok |-> returncode = 0,
     files |-> IF wrote THEN [files EXCEPT ![pdf] = Pdf(name, 1)] ELSE files]


(***************************************************************************)
(* State                                                                   *)
(***************************************************************************)
VARIABLES
    gpc,            \* display script: where it is
    weights,        \* the global weights dict
    sliders,        \* the four Slider widgets (<<>> before create_sliders)
    grid,           \* X, Y, R, mask
    shared_vmax,    \* the color-scale bound (None before line 227)
    l_index,        \* the loop variable of the running loop over the terms
    candidate_max,  \* compute_reference_vmax: candidate_max
    ref_total,      \* compute_reference_vmax: total
    potentials,     \* compute_potentials: potentials
    total,          \* compute_potentials: total
    axes,           \* what each of the five axes shows
    redrawn,        \* the axes plot_panel drew on since update_plots was entered
    call,           \* multipole_term called on its own: the call
    ret,            \* ... and what it returned
    apc,            \* assemble.py: the step main() is at
    files,          \* assemble.py: the files, by path
    exit_status,    \* assemble.py: the process's exit status, -1 while it runs
    trace           \* assemble.py: external steps performed and warnings printed

vars ==
    <<gpc, weights, sliders, grid, shared_vmax, l_index, candidate_max, ref_total,
      potentials, total, axes, redrawn, call, ret, apc, files, exit_status, trace>>

guiVars ==
    <<gpc, weights, sliders, grid, shared_vmax, l_index, candidate_max, ref_total,
      potentials, total, axes, redrawn>>

evalVars == <<call, ret>>

asmVars == <<apc, files, exit_status, trace>>

(***************************************************************************)
(* The display script.  Its module-level statements run once, in order;    *)
(* then plt.show() delivers slider events one at a time, each callback     *)
(* running to completion before the next event (no action of the script    *)
(* but the next step of the running call is enabled in between).           *)
(*   gpc = "reference"  in compute_reference_vmax (line 227)               *)
(*         "sliders"    at line 253                                        *)
(*         "compute"    in update_plots, in the loop of compute_potentials *)
(*         "plot"       in update_plots, compute_potentials has returned   *)
(*         "idle"       in plt.show(), waiting for an event                *)
(***************************************************************************)
\* pointer positions the slider events of the model carry
RawVals == {FromInt(-3), Zero}

\* lines 225-226, and compute_reference_vmax entered (lines 189-190)
InitGui ==
    /\ gpc = "reference"
    /\ weights = DEFAULT_WEIGHTS
    /\ grid = build_grid
    /\ shared_vmax = None
    /\ l_index = 0
    /\ candidate_max = Zero
    /\ ref_total = zeros_like
    /\ potentials = <<>>
    /\ total = zeros_like
    /\ axes = [a \in Axes |-> Blank]
    /\ sliders = <<>>
    /\ redrawn = {}

InitEvalIdle ==
    /\ call = [op |-> "none"]
    /\ ret = [done |-> FALSE]

InitAsmIdle ==
    /\ apc = "idle"
    /\ files = [p \in Paths |-> Absent]
    /\ exit_status = -1
    /\ trace = <<>>

\* compute_reference_vmax, lines 191-196: one pass of the loop
compute_reference_vmax_loop ==
    /\ gpc = "reference"
    /\ l_index < 4
    /\ ref_total' =
         AddField(ref_total,
                  multipole_term(l_index, REFERENCE_COEFF,
                                 grid.X, grid.Y, grid.R, grid.mask).V)
    /\ candidate_max' =
         next_candidate(candidate_max,
                        multipole_term(l_index, REFERENCE_COEFF,
                                       grid.X, grid.Y, grid.R, grid.mask).V)
    /\ l_index' = l_index + 1
    /\ UNCHANGED <<gpc, weights, sliders, grid, shared_vmax, potentials, total, axes,
                   redrawn, evalVars, asmVars>>

\* the floor of lines 202-203
floor_vmax(c) == IF FLeq(c, VmaxFloor) THEN One ELSE c

\* compute_reference_vmax, lines 198-204, and the assignment of line 227
compute_reference_vmax_return ==
    /\ gpc = "reference"
    /\ l_index = 4
    /\ candidate_max' = floor_vmax(next_candidate(candidate_max, ref_total))
    /\ shared_vmax' = floor_vmax(next_candidate(candidate_max, ref_total))
    /\ gpc' = "sliders"
    /\ UNCHANGED <<weights, sliders, grid, l_index, ref_total, potentials, total, axes,
                   redrawn, evalVars, asmVars>>

\* faulty variant: compute_potentials adding onto the total of the previous call
enter_update_plots_KeepTotal ==
    /\ potentials' = <<>>
    /\ total' = total
    /\ l_index' = 1
    /\ redrawn' = {}
    /\ gpc' = "compute"

\* update_plots entered: compute_potentials, lines 216-217
enter_update_plots ==
    /\ potentials' = <<>>
    /\ total' = zeros_like
    /\ l_index' = 1
    /\ redrawn' = {}
    /\ gpc' = "compute"

\* lines 253-254: create_sliders, then the first update_plots()
create_sliders_and_draw ==
    /\ gpc = "sliders"
    /\ sliders' = create_sliders(weights)
    /\ enter_update_plots
    /\ UNCHANGED <<weights, grid, shared_vmax, candidate_max, ref_total, axes,
                   evalVars, asmVars>>

\* the user moves slider key to the position raw: the Slider takes the value
\* and calls on_slider_change (lines 248-250)
SliderEvent(key, raw) ==
    /\ gpc = "idle"
    /\ sliders' = [sliders EXCEPT ![key].val = value_in_bounds(sliders[key], raw)]
    /\ weights' = on_slider_change(weights, sliders')
    /\ enter_update_plots
    /\ UNCHANGED <<grid, shared_vmax, candidate_max, ref_total, axes, evalVars, asmVars>>

\* potentials[label] = V
SetItem(d, key, value) ==
    [k \in DOMAIN d \cup {key} |-> IF k = key THEN value ELSE d[k]]

\* compute_potentials, lines 218-221: one pass of the loop; after the last one
\* it returns (line 223)
compute_potentials_loop ==
    /\ gpc = "compute"
    /\ l_index <= Len(term_info)
    /\ potentials' =
         SetItem(potentials, term_info[l_index][1],
                 multipole_term(term_info[l_index][2], weights[term_info[l_index][3]],
                                grid.X, grid.Y, grid.R, grid.mask).V)
    /\ total' =
         AddField(total,
                  multipole_term(term_info[l_index][2], weights[term_info[l_index][3]],
                                 grid.X, grid.Y, grid.R, grid.mask).V)
    /\ l_index' = l_index + 1
    /\ gpc' = IF l_index = Len(term_info) THEN "plot" ELSE "compute"
    /\ UNCHANGED <<weights, sliders, grid, shared_vmax, candidate_max, ref_total, axes,
                   redrawn, evalVars, asmVars>>

\* update_plots, lines 234-240: the five plot_panel calls; the callback returns
update_plots_draw ==
    /\ gpc = "plot"
    /\ axes' =
         [a \in Axes |->
            IF a \in drawn_axes
            THEN plot_panel(panel_args(a, potentials, total, weights, shared_vmax)[1],
                            panel_args(a, potentials, total, weights, shared_vmax)[2],
                            panel_args(a, potentials, total, weights, shared_vmax)[3])
            ELSE axes[a]]
    /\ redrawn' = drawn_axes
    /\ gpc' = "idle"
    /\ UNCHANGED <<weights, sliders, grid, shared_vmax, l_index, candidate_max,
                   ref_total, potentials, total, evalVars, asmVars>>

Init == InitGui /\ InitEvalIdle /\ InitAsmIdle

Next ==
    \/ compute_reference_vmax_loop
    \/ compute_reference_vmax_return
    \/ create_sliders_and_draw
    \/ \E key \in Keys, raw \in RawVals : SliderEvent(key, raw)
    \/ compute_potentials_loop
    \/ update_plots_draw

Spec == Init /\ [][Next]_vars

(***************************************************************************)
(* The evaluator called on its own: multipole_term on any order and        *)
(* coefficient, compute_potentials on any weight vector                    *)
(***************************************************************************)
\* largest order tried; orders -1 .. MaxL
MaxL == 4

LVals == -1 .. MaxL

CoeffVals == {Zero, FromInt(-2), RatToFloat(6, 10, 0), FromInt(1)}

InitEval ==
    /\ InitAsmIdle
    /\ grid = build_grid
    /\ shared_vmax = None
    /\ candidate_max = Zero
    /\ ref_total = zeros_like
    /\ potentials = <<>>
    /\ total = zeros_like
    /\ axes = [a \in Axes |-> Blank]
    /\ sliders = <<>>
    /\ redrawn = {}
    /\ ret = [done |-> FALSE]
    /\ \/ /\ call \in {[op |-> "multipole_term", l |-> l, c |-> c] :
                          l \in LVals, c \in CoeffVals}
          /\ gpc = "call"
          /\ l_index = 0
          /\ weights = DEFAULT_WEIGHTS
       \/ /\ call = [op |-> "compute_potentials"]
          /\ gpc = "compute"
          /\ l_index = 1
          /\ weights \in [Keys -> CoeffVals]

CallMultipoleTerm ==
    /\ call.op = "multipole_term"
    /\ ~ret.done
    /\ ret' = [done |-> TRUE,
               raised |-> multipole_term(call.l, call.c,
                                         grid.X, grid.Y, grid.R, grid.mask).raised,
               V |-> multipole_term(call.l, call.c,
                                    grid.X, grid.Y, grid.R, grid.mask).V]
    /\ UNCHANGED <<call, guiVars, asmVars>>

NextEval == CallMultipoleTerm \/ compute_potentials_loop

SpecEval == InitEval /\ [][NextEval]_vars

(***************************************************************************)
(* assemble.py: main()                                                     *)
(***************************************************************************)
\* main() entered, lines 74-85: the paths; build/ may hold files of an earlier run
InitMain ==
    /\ InitGui
    /\ InitEvalIdle
    /\ apc = "step1"
    /\ exit_status = -1
    /\ trace = <<>>
    /\ files \in [Paths -> {Absent, <<"png">>, Pdf("stale", 1)}]
    /\ files[image_png] \in {Absent, <<"png">>}
    /\ \A p \in Paths \ {image_png} : files[p] # <<"png">>

\* sys.exit(1)
Exit1 ==
    /\ apc' = "exited"
    /\ exit_status' = 1

\* faulty variant: the missing image is reported but main() goes on
Step1NoImage_GoOn ==
    /\ apc = "step1"
    /\ ~exists(files, image_png)
    /\ apc' = "step2"
    /\ UNCHANGED <<files, trace, exit_status, guiVars, evalVars>>

\* lines 88-90: the image is missing
Step1NoImage ==
    /\ apc = "step1"
    /\ ~exists(files, image_png)
    /\ Exit1
    /\ UNCHANGED <<files, trace, guiVars, evalVars>>

\* lines 91-92: convert_image_to_pdf
Step1Convert ==
    /\ apc = "step1"
    /\ exists(files, image_png)
    /\ files' = [files EXCEPT ![image_pdf] = Pdf("image", 1)]
    /\ trace' = Append(trace, <<"convert", image_png>>)
    /\ apc' = "step2"
    /\ UNCHANGED <<exit_status, guiVars, evalVars>>

\* lines 94-99: compile report.tex
Step2(returncode, wrote) ==
    /\ apc = "step2"
    /\ LET r == compile_latex(files, report_pdf, "report", returncode, wrote)
       IN  /\ files' = r.files
           /\ trace' = Append(trace, <<"pdflatex", report_tex, returncode>>)
           /\ IF r.ok THEN apc' = "step3" /\ UNCHANGED exit_status ELSE Exit1
    /\ UNCHANGED <<guiVars, evalVars>>

\* lines 101-106: compile code.tex
Step3(returncode, wrote) ==
    /\ apc = "step3"
    /\ LET r == compile_latex(files, code_pdf, "code", returncode, wrote)
       IN  /\ files' = r.files
           /\ trace' = Append(trace, <<"pdflatex", code_tex, returncode>>)
           /\ IF r.ok THEN apc' = "step4" /\ UNCHANGED exit_status ELSE Exit1
    /\ UNCHANGED <<guiVars, evalVars>>

\* the warnings of assemble_pdf as trace entries
Warnings(ws) == [i \in 1 .. Len(ws) |-> <<"warning", ws[i]>>]

\* lines 108-112: assemble_pdf, and main() returns
Step4 ==
    /\ apc = "step4"
    /\ LET r == assemble_pdf(files, image_pdf, report_pdf, code_pdf, final_pdf)
       IN  /\ files' = r.files
           /\ trace' = trace \o Warnings(r.warnings) \o << <<"write", final_pdf>> >>
    /\ apc' = "done"
    /\ exit_status' = 0
    /\ UNCHANGED <<guiVars, evalVars>>

NextMain ==
    \/ Step1NoImage
    \/ Step1Convert
    \/ \E returncode \in {0, 1}, wrote \in BOOLEAN : Step2(returncode, wrote)
    \/ \E returncode \in {0, 1}, wrote \in BOOLEAN : Step3(returncode, wrote)
    \/ Step4

SpecMain == InitMain /\ [][NextMain]_vars

(***************************************************************************)
(* assemble.py: assemble_pdf called on its own                             *)
(***************************************************************************)
PdfFiles(name) == {Absent} \cup {Pdf(name, n) : n \in 0 .. MaxPages}

InitMerge ==
    /\ InitGui
    /\ InitEvalIdle
    /\ apc = "assemble_pdf"
    /\ exit_status = -1
    /\ trace = <<>>
    /\ \E i \in PdfFiles("image"), r \in PdfFiles("report"), c \in PdfFiles("code"),
          f \in {Absent, Pdf("stale", 1)} :
          files = [p \in Paths |->
                     CASE p = image_pdf -> i
                       [] p = report_pdf -> r
                       [] p = code_pdf -> c
                       [] p = final_pdf -> f
                       [] OTHER -> Absent]

CallAssemblePdf ==
    /\ apc = "assemble_pdf"
    /\ LET r == assemble_pdf(files, image_pdf, report_pdf, code_pdf, final_pdf)
       IN  /\ files' = r.files
           /\ trace' = trace \o Warnings(r.warnings) \o << <<"write", final_pdf>> >>
    /\ apc' = "returned"
    /\ UNCHANGED <<exit_status, guiVars, evalVars>>

NextMerge == CallAssemblePdf

SpecMerge == InitMerge /\ [][NextMerge]_vars

(***************************************************************************)
(* Properties of assemble.py                                               *)
(***************************************************************************)
\* C1: when media/multipole_plot.png does not exist, main() exits with status 1
\* and performs no conversion, no pdflatex run and no merge or write.
C1_MissingImageExits ==
    ~exists(files, image_png) =>
        /\ trace = <<>>
        /\ apc \in {"step1", "exited"}
        /\ apc = "exited" => exit_status = 1
        /\ apc = "step1" => exit_status = -1

C1_Witness ==
    /\ ~exists(files, image_png)
    /\ apc = "exited"
    /\ exit_status = 1
    /\ trace = <<>>

IsPdflatex(ev) == ev[1] = "pdflatex"

\* C2: a pdflatex run that returns non-zero is the last step of the run, which
\* exits with status 1; the write of final_report.pdf comes only after the
\* conversion, report.tex compiled with return code 0 and code.tex compiled with
\* return code 0, in that order.
C2_CompileFailureAborts ==
    /\ \A i \in 1 .. Len(trace) :
         (IsPdflatex(trace[i]) /\ trace[i][3] # 0) =>
            /\ i = Len(trace)
            /\ apc = "exited"
            /\ exit_status = 1
    /\ (\E i \in 1 .. Len(trace) : trace[i] = <<"write", final_pdf>>) =>
            /\ Len(trace) >= 4
            /\ trace[1] = <<"convert", image_png>>
            /\ trace[2] = <<"pdflatex", report_tex, 0>>
            /\ trace[3] = <<"pdflatex", code_tex, 0>>
            /\ trace[Len(trace)] = <<"write", final_pdf>>
            /\ \A i \in 4 .. Len(trace) - 1 : trace[i][1] = "warning"
            /\ exit_status = 0
    /\ exit_status = 0 => trace[Len(trace)] = <<"write", final_pdf>>

C2_Witness ==
    /\ Len(trace) = 3
    /\ trace[2] = <<"pdflatex", report_tex, 0>>
    /\ trace[3] = <<"pdflatex", code_tex, 1>>
    /\ apc = "exited"
    /\ exit_status = 1

\* the pages of an input of the merge: none when the file is missing
PagesOf(path) == IF exists(files, path) THEN Tail(files[path]) ELSE <<>>

MissingInputs == SelectSeq(<<image_pdf, report_pdf, code_pdf>>, LAMBDA q : ~exists(files, q))

\* C3: assemble_pdf writes exactly the pages of the inputs that exist, each once,
\* in the order image, report, code; a missing input is skipped with a warning
\* and the merge still writes its output.
C3_MergeKeepsExistingInOrder ==
    apc = "returned" =>
        /\ exists(files, final_pdf)
        /\ Tail(files[final_pdf]) = PagesOf(image_pdf) \o PagesOf(report_pdf) \o PagesOf(code_pdf)
        /\ trace = Warnings(MissingInputs) \o << <<"write", final_pdf>> >>

C3_Witness ==
    /\ apc = "returned"
    /\ ~exists(files, report_pdf)
    /\ files[image_pdf] = Pdf("image", 1)
    /\ files[code_pdf] = Pdf("code", 2)
    /\ files[final_pdf] = <<"pdf", <<"image", 1>>, <<"code", 1>>, <<"code", 2>> >>

(***************************************************************************)
(* Properties of the evaluator                                             *)
(***************************************************************************)
Returned == call.op = "multipole_term" /\ ret.done

\* C4: multipole_term on an order outside {0,1,2,3} raises ValueError for every
\* coefficient, a coefficient of zero included.
C4_UnsupportedOrderRaises ==
    (Returned /\ call.l \notin 0 .. 3) => ret.raised

\* C5: every masked point (R < R_MIN) is NaN in the field multipole_term returns,
\* for every supported order and every coefficient, and in the total of
\* compute_potentials for every weight vector.
C5_MaskedAlwaysUndefined ==
    /\ (Returned /\ call.l \in 0 .. 3) =>
          /\ ~ret.raised
          /\ \A p \in Points : grid.mask[p] => ret.V[p].nan
    /\ (call.op = "compute_potentials" /\ gpc = "plot") =>
          \A p \in Points : grid.mask[p] => total[p].nan

\* C6: with a coefficient of zero multipole_term returns, for every supported
\* order, the field that is zero at every point, masked points included.
C6_ZeroCoefficientZeroField ==
    (Returned /\ call.l \in 0 .. 3 /\ FEq(call.c, Zero)) =>
        /\ ~ret.raised
        /\ \A p \in Points : ret.V[p] = Zero

C6_Witness ==
    /\ Returned
    /\ call.l = 3
    /\ call.c = Zero
    /\ \E p \in Points : grid.mask[p] /\ ret.V[p] = Zero
    /\ \E p \in Points : ~grid.mask[p] /\ ret.V[p] = Zero

\* the four term fields summed at point p in the order s of the labels
SumInOrder(s, p) ==
    FAdd(FAdd(FAdd(FAdd(Zero, potentials[s[1]][p]), potentials[s[2]][p]),
              potentials[s[3]][p]),
         potentials[s[4]][p])

LabelOrders == {s \in [1 .. 4 -> Labels] : \A i, j \in 1 .. 4 : s[i] = s[j] => i = j}

\* each returned term is the field of its order under its own weight
TermsAreOwnFields ==
    /\ DOMAIN potentials = {"Monopole", "Dipole", "Quadrupole", "Octupole"}
    /\ potentials["Monopole"] =
         multipole_term(0, weights["monopole"], grid.X, grid.Y, grid.R, grid.mask).V
    /\ potentials["Dipole"] =
         multipole_term(1, weights["dipole"], grid.X, grid.Y, grid.R, grid.mask).V
    /\ potentials["Quadrupole"] =
         multipole_term(2, weights["quadrupole"], grid.X, grid.Y, grid.R, grid.mask).V
    /\ potentials["Octupole"] =
         multipole_term(3, weights["octupole"], grid.X, grid.Y, grid.R, grid.mask).V

UndefinedIffATermIs ==
    \A p \in Points : total[p].nan <=> \E lab \in Labels : potentials[lab][p].nan

\* C7 as stated: the total is the sum of the four term fields, whatever the order
\* in which the terms are added.
C7_SumInAnyOrder ==
    gpc = "plot" =>
        /\ TermsAreOwnFields
        /\ UndefinedIffATermIs
        /\ \A s \in LabelOrders : \A p \in Points : total[p] = SumInOrder(s, p)

\* C7 amended: the total is the floating-point sum of the four term fields added
\* to zero in the order Monopole, Dipole, Quadrupole, Octupole, undefined exactly
\* where a term is.
C7_SumInCodeOrder ==
    gpc = "plot" =>
        /\ TermsAreOwnFields
        /\ UndefinedIffATermIs
        /\ \A p \in Points :
             total[p] = SumInOrder(<<"Monopole", "Dipole", "Quadrupole", "Octupole">>, p)

C7_Witness ==
    /\ gpc = "plot"
    /\ call.op = "compute_potentials"
    /\ \A k \in Keys : ~FEq(weights[k], Zero)
    /\ \E p \in Points : ~total[p].nan /\ total[p] # Zero
    /\ \E p \in Points : total[p].nan

(***************************************************************************)
(* Properties of the display                                               *)
(***************************************************************************)
Started == gpc \in {"sliders", "compute", "plot", "idle"}

C8_State ==
    /\ Started => (shared_vmax # None /\ ~shared_vmax.nan /\ shared_vmax.m > 0)
    /\ \A a \in redrawn :
         axes[a].vmax = shared_vmax /\ axes[a].vmin = FNeg(shared_vmax)
    /\ gpc = "idle" => redrawn = Axes

C8_Step == shared_vmax' # shared_vmax => (shared_vmax = None /\ gpc = "reference")

\* C8: shared_vmax is assigned once, at startup, is strictly positive and no
\* slider event changes it; every redraw draws all five panels with it.
C8_SharedVmaxFixed == [](C8_State) /\ [][C8_Step]_vars

C8_Witness ==
    /\ gpc = "idle"
    /\ weights # DEFAULT_WEIGHTS
    /\ redrawn = Axes
    /\ \A a \in Axes : axes[a].vmax = shared_vmax /\ shared_vmax.m > 0

InRange(w) == FLeq(FromInt(SLIDER_MIN), w) /\ FLeq(w, FromInt(SLIDER_MAX))

C9_State ==
    /\ \A k \in Keys : InRange(weights[k])
    /\ gpc \in {"compute", "plot", "idle"} =>
          \A k \in Keys : weights[k] = sliders[k].val

C9_Step == weights' # weights => \E key \in Keys, raw \in RawVals : SliderEvent(key, raw)

\* C9: once a callback has run the weights are the values of the four sliders;
\* every weight is within [SLIDER_MIN, SLIDER_MAX] in every state, and only a
\* slider event changes the weights.
C9_WeightsFollowSliders == [](C9_State) /\ [][C9_Step]_vars

C9_Witness ==
    /\ gpc = "idle"
    /\ weights["dipole"] = FromInt(SLIDER_MIN)
    /\ weights["octupole"] = Zero
    /\ weights["monopole"] = DEFAULT_WEIGHTS["monopole"]
    /\ \A k \in Keys : weights[k] = sliders[k].val

\* the field of one order computed from the slider's value and the fixed grid
FieldOfSlider(l_value, key) ==
    multipole_term(l_value, sliders[key].val, grid.X, grid.Y, grid.R, grid.mask).V

TotalOfSliders ==
    [p \in Points |->
        FAdd(FAdd(FAdd(FAdd(Zero, FieldOfSlider(0, "monopole")[p]),
                       FieldOfSlider(1, "dipole")[p]),
                  FieldOfSlider(2, "quadrupole")[p]),
             FieldOfSlider(3, "octupole")[p])]

\* what the five axes show for the current slider values
DisplayOfSliders ==
    [a \in Axes |->
        CASE a = "ax_main" ->
               plot_panel(TotalOfSliders, <<"Total Potential">>, shared_vmax)
          [] a = "ax_mono" ->
               plot_panel(FieldOfSlider(0, "monopole"),
                          <<"Monopole", Format2(sliders["monopole"].val)>>, shared_vmax)
          [] a = "ax_dip" ->
               plot_panel(FieldOfSlider(1, "dipole"),
                          <<"Dipole", Format2(sliders["dipole"].val)>>, shared_vmax)
          [] a = "ax_quad" ->
               plot_panel(FieldOfSlider(2, "quadrupole"),
                          <<"Quadrupole", Format2(sliders["quadrupole"].val)>>, shared_vmax)
          [] a = "ax_oct" ->
               plot_panel(FieldOfSlider(3, "octupole"),
                          <<"Octupole", Format2(sliders["octupole"].val)>>, shared_vmax)]

\* C10: whenever the script waits for an event, the five panels show the fields
\* of the current slider values, computed from the fixed grid alone, and all five
\* were drawn by the last redraw; the events that led there do not matter.
C10_DisplayOfCurrentSliders ==
    gpc = "idle" => (redrawn = Axes /\ axes = DisplayOfSliders)

C10_Witness ==
    /\ gpc = "idle"
    /\ sliders["monopole"].val = Zero
    /\ sliders["dipole"].val = FromInt(SLIDER_MIN)
    /\ sliders["quadrupole"].val = DEFAULT_WEIGHTS["quadrupole"]
    /\ axes = DisplayOfSliders
    /\ \E p \in Points : ~axes["ax_main"].V[p].nan /\ axes["ax_main"].V[p] # Zero
====
